---- MODULE Spec2Model ----
(***************************************************************************)
(* A model of the three Nutanix automation scripts:                        *)
(*   ntnx-cluster-update-network.py          (batch flow, update_network)  *)
(*   ntnx-cluster-update-sensor.py           (single-target sensor flow)   *)
(*   ntnx-create-network-function-provider.py (provisioning flow)          *)
(* Every script is one sequential program: pc is its position, each action *)
(* is one step between two blocking points (a request or a sleep), and the *)
(* control plane's answers are nondeterministic.                            *)
(***************************************************************************)
EXTENDS Integers, Sequences, FiniteSets, TLC

VARIABLES
    flow,               \* which entry point runs
    pc,                 \* position of the program
    outcome,            \* how the entry point ended
    latency,            \* seconds one task poll takes in this environment
    wt,                 \* the frame of wait_for_task
    cp_chains,          \* control plane: network function chains, listing order
    cp_networks,        \* control plane: subnets, listing order
    cp_vms,             \* control plane: VMs, listing order
    cp_clusters,        \* control plane: clusters, listing order
    cp_values,          \* control plane: values of network_function_provider
    args,               \* the entry point's arguments
    cluster_chains,     \* main: cluster name -> chain info
    matching_networks,  \* main: the matched networks
    idx,                \* main: index of the loop over matches / clusters
    fetched,            \* the snapshot an update is built from
    found,              \* the entity a single-target flow located
    clusters,           \* provisioning main: the listed clusters
    puts,               \* every update PUT issued, in order, with its answer
    posts,              \* every chain-creation POST issued, in order
    last_req,           \* the request issued last
    reqs,               \* every request issued other than a task poll, in order,
                        \* with whether it succeeded
    printed,            \* the messages printed
    run                 \* which run of the entry point this is

vars == <<flow, pc, outcome, latency, wt, cp_chains, cp_networks, cp_vms,
          cp_clusters, cp_values, args, cluster_chains, matching_networks,
          idx, fetched, found, clusters, puts, posts, last_req, reqs, printed,
          run>>

cpVars == <<cp_chains, cp_networks, cp_vms, cp_clusters, cp_values>>
mainVars == <<cluster_chains, matching_networks, idx, fetched, found, clusters>>
histVars == <<puts, posts, printed>>

(***************************************************************************)
(* Bounds of the model.                                                    *)
(***************************************************************************)
MaxTimeout == 4
MaxInterval == 2
MaxPollLatency == 1
MaxNetworks == 2
MaxChains == 2
MaxVms == 2
MaxClusters == 2
MaxRuns == 2

(***************************************************************************)
(* Program constants.                                                      *)
(***************************************************************************)
DefaultTimeoutSecs == 300
DefaultIntervalSecs == 5
DefaultLength == 500

(***************************************************************************)
(* JSON documents.  A dict is a function from keys to values; a missing    *)
(* key is a key outside its DOMAIN.  Where the code's behaviour depends on *)
(* whether a value is a string or a dict (the task status document), the   *)
(* value is tagged: Str(s) or Obj(d).                                      *)
(***************************************************************************)
EmptyDict == [k \in {} |-> 0]
Str(s) == [str |-> s]
Obj(d) == [obj |-> d]
IsObj(v) == "obj" \in DOMAIN v
IsStr(v) == "str" \in DOMAIN v

\* dict.get(k, dflt)
Get(d, k, dflt) == IF k \in DOMAIN d THEN d[k] ELSE dflt

\* d with key k set to v (d[k] = v)
SetKey(d, k, v) == [x \in (DOMAIN d) \cup {k} |-> IF x = k THEN v ELSE d[x]]

Min(a, b) == IF a < b THEN a ELSE b

(***************************************************************************)
(* Task status documents the control plane may return to GET tasks/{uuid}. *)
(* Nested(..) is the shape {status: {state, error_detail?}}; Flat(..) is   *)
(* {status: <state>, error_detail?}.                                       *)
(***************************************************************************)
Nested(state) == [status |-> Obj([state |-> Str(state)])]
NestedDetail(state, detail) ==
    [status |-> Obj([state |-> Str(state), error_detail |-> Str(detail)])]
Flat(state) == [status |-> Str(state)]
FlatDetail(state, detail) == [status |-> Str(state), error_detail |-> Str(detail)]

AllTaskDocs ==
    { Nested("PENDING"), Nested("SUCCEEDED"), Nested("FAILED"),
      NestedDetail("FAILED", "boom"), Nested("RUNNING"),
      [status |-> Obj(EmptyDict)], EmptyDict,
      Flat("PENDING"), Flat("SUCCEEDED"), Flat("FAILED"),
      FlatDetail("FAILED", "boom") }

FlowTaskDocs ==
    { Nested("PENDING"), Nested("SUCCEEDED"), NestedDetail("FAILED", "boom"),
      Flat("SUCCEEDED"), FlatDetail("FAILED", "boom") }

\* What make_request may give back: a parsed body, or NutanixAPIError.
Ok(body) == [ok |-> TRUE, body |-> body]
Failure == [ok |-> FALSE]

TaskResponses(f) ==
    {Failure} \cup {Ok(d) : d \in IF f = "wait" THEN AllTaskDocs ELSE FlowTaskDocs}

\* The documented view of a task document: status.state, "" when absent.
DocState(doc) ==
    LET st == Get(doc, "status", Obj(EmptyDict))
    IN  IF IsObj(st) /\ "state" \in DOMAIN st.obj /\ IsStr(st.obj.state)
        THEN st.obj.state.str
        ELSE ""

\* The documented view of the error detail: status.error_detail.
DocHasDetail(doc) ==
    LET st == Get(doc, "status", Obj(EmptyDict))
    IN  IsObj(st) /\ "error_detail" \in DOMAIN st.obj

DocDetail(doc) == doc.status.obj.error_detail

NoDetails == Str("No error details available")

(***************************************************************************)
(* wait_for_task, in its two versions.  The sensor script reads the state  *)
(* at status.state and the error detail at status.error_detail; the        *)
(* network script reads the state at status and the error detail at the    *)
(* top level of the document.                                              *)
(***************************************************************************)

\* sensor: current_status = task_status.get('status', {}); .get on a string
\* raises AttributeError.
sensor_attribute_error(doc) == IsStr(Get(doc, "status", Obj(EmptyDict)))

sensor_state(doc) == Get(Get(doc, "status", Obj(EmptyDict)).obj, "state", Str(""))

sensor_error_detail_at_top(doc) == Get(doc, "error_detail", NoDetails)

sensor_error_detail(doc) ==
    Get(Get(doc, "status", Obj(EmptyDict)).obj, "error_detail", NoDetails)

network_state_failed_by_default(doc) == Get(doc, "status", Str("FAILED"))

network_state(doc) == Get(doc, "status", Str(""))

network_error_detail(doc) == Get(doc, "error_detail", NoDetails)

ReadState(script, doc) ==
    IF script = "sensor" THEN sensor_state(doc) ELSE network_state(doc)

ReadErrorDetail(script, doc) ==
    IF script = "sensor" THEN sensor_error_detail(doc) ELSE network_error_detail(doc)

StateIsAny(v, s) == IsStr(v)

\* state == 'SUCCEEDED' and friends: a dict never equals a string.
StateIs(v, s) == IsStr(v) /\ v.str = s

TimedOutAtOrAfter(elapsed, timeout_secs) == elapsed >= timeout_secs

\* time.time() - start_time > timeout_secs
TimedOut(elapsed, timeout_secs) == elapsed > timeout_secs

SleepFirst == "wt_sleep"

\* while True: the loop body starts with the poll.
LoopEntry == "wt_poll"

\* The frame of a fresh call wait_for_task(task_uuid, timeout_secs, interval_secs).
NewFrame(script, task_uuid, timeout_secs, interval_secs) ==
    [ script        |-> script,
      task_uuid     |-> task_uuid,
      timeout_secs  |-> timeout_secs,
      interval_secs |-> interval_secs,
      elapsed       |-> 0,           \* time.time() - start_time
      polls         |-> 0,           \* calls of get_task_status so far
      sleeps        |-> 0,           \* calls of time.sleep so far
      last          |-> Failure,     \* the answer to the last poll
      polled_at     |-> 0,           \* elapsed time when the last poll was issued
      only_pending  |-> TRUE,        \* every poll before the last was PENDING
      result        |-> "none",      \* returned | task_failed | timed_out |
                                     \* api_error | attribute_error
      value         |-> EmptyDict ]  \* the returned document / the error detail

NoFrame == NewFrame("none", <<"task", 0>>, 0, 0)

IsPending(r) == r.ok /\ DocState(r.body) = "PENDING"

\* A printed message: what kind, and the <<name, number>> it is about.
Msg(m, a) == [msg |-> m, about |-> a]
What(s) == <<s, 0>>

\* except NutanixAPIError / except Exception at the boundary of an entry point.
ErrorOutcome(result) == IF result = "attribute_error" THEN "unexpected" ELSE "error"

(***************************************************************************)
(* One iteration of the loop of wait_for_task up to its sleep: the poll,   *)
(* the check of the state, the check of the timeout.                       *)
(***************************************************************************)
WaitPoll ==
    /\ pc = "wt_poll"
    /\ \E r \in TaskResponses(flow) :
        LET e == wt.elapsed + latency
            f == [wt EXCEPT !.polls = @ + 1,
                            !.polled_at = wt.elapsed,
                            !.elapsed = e,
                            !.last = r,
                            !.only_pending =
                                wt.only_pending /\ (wt.polls = 0 \/ IsPending(wt.last))]
            Ends(res, val) ==
                /\ wt' = [f EXCEPT !.result = res, !.value = val]
                /\ IF res = "returned"
                   THEN /\ pc' = "wt_returned"
                        /\ UNCHANGED <<outcome, printed>>
                   ELSE /\ pc' = "done"
                        /\ outcome' = ErrorOutcome(res)
                        /\ printed' = printed \cup {Msg(ErrorOutcome(res), What(res))}
        IN  /\ last_req' = [op |-> "poll", uuids |-> {wt.task_uuid}]
            /\ IF ~r.ok
               THEN Ends("api_error", EmptyDict)
               ELSE IF wt.script = "sensor" /\ sensor_attribute_error(r.body)
               THEN Ends("attribute_error", EmptyDict)
               ELSE IF StateIs(ReadState(wt.script, r.body), "SUCCEEDED")
               THEN Ends("returned", r.body)
               ELSE IF StateIs(ReadState(wt.script, r.body), "FAILED")
               THEN Ends("task_failed", ReadErrorDetail(wt.script, r.body))
               ELSE IF TimedOut(e, wt.timeout_secs)
               THEN Ends("timed_out", EmptyDict)
               ELSE /\ wt' = f
                    /\ pc' = "wt_sleep"
                    /\ UNCHANGED <<outcome, printed>>
    /\ UNCHANGED <<flow, latency, cpVars, args, mainVars, puts, posts, reqs, run>>

\* time.sleep(interval_secs)
WaitSleep ==
    /\ pc = "wt_sleep"
    /\ wt' = [wt EXCEPT !.sleeps = @ + 1, !.elapsed = @ + wt.interval_secs]
    /\ pc' = "wt_poll"
    /\ UNCHANGED <<flow, outcome, latency, cpVars, args, mainVars, histVars,
                   last_req, reqs, run>>

(***************************************************************************)
(* A direct call of wait_for_task of either script, with any timeout and   *)
(* any positive interval.                                                  *)
(***************************************************************************)
NoReq == [op |-> "none", uuids |-> {}]

InitCommon(f) ==
    /\ flow = f
    /\ pc = "start"
    /\ outcome = "running"
    /\ latency \in 0..MaxPollLatency
    /\ wt = NoFrame
    /\ cluster_chains = EmptyDict
    /\ matching_networks = <<>>
    /\ idx = 0
    /\ fetched = EmptyDict
    /\ found = EmptyDict
    /\ clusters = <<>>
    /\ puts = <<>>
    /\ posts = <<>>
    /\ last_req = NoReq
    /\ reqs = <<>>
    /\ printed = {}
    /\ run = 1

InitNoControlPlane ==
    /\ cp_chains = <<>>
    /\ cp_networks = <<>>
    /\ cp_vms = <<>>
    /\ cp_clusters = <<>>
    /\ cp_values = {}

TrackerCall ==
    /\ flow = "wait"
    /\ pc = "start"
    /\ \E s \in {"sensor", "network"}, t \in 0..MaxTimeout, i \in 1..MaxInterval :
          wt' = NewFrame(s, <<"task", 1>>, t, i)
    /\ pc' = LoopEntry
    /\ UNCHANGED <<flow, outcome, latency, cpVars, args, mainVars, histVars,
                   last_req, reqs, run>>

InitTracker ==
    /\ InitCommon("wait")
    /\ InitNoControlPlane
    /\ args = EmptyDict

NextTracker == TrackerCall \/ WaitPoll \/ WaitSleep

SpecTracker == InitTracker /\ [][NextTracker]_vars

(***************************************************************************)
(* Claims about wait_for_task, checked under SpecTracker.                  *)
(***************************************************************************)
InTracker == pc \in {"wt_poll", "wt_sleep"}

Polled == wt.polls >= 1 /\ wt.last.ok

\* Every poll of this call so far, the last one included, returned PENDING.
AllPending == wt.polls >= 1 /\ wt.only_pending /\ IsPending(wt.last)

\* C1: in the network script, the first poll whose document has
\* status.state SUCCEEDED makes wait_for_task return that document, and the
\* first poll whose document has status.state FAILED makes it raise the
\* task-failed error, with no further poll or sleep.
C1_NetworkEndsOnTerminalState ==
    (wt.script = "network" /\ Polled) =>
        /\ DocState(wt.last.body) = "SUCCEEDED" =>
              (~InTracker /\ wt.result = "returned" /\ wt.value = wt.last.body)
        /\ DocState(wt.last.body) = "FAILED" =>
              (~InTracker /\ wt.result = "task_failed")

\* C3: in the sensor script, n polls in state PENDING followed by one poll in
\* state SUCCEEDED make wait_for_task return the SUCCEEDED document after
\* n+1 polls and n sleeps.
C3_SensorPollsAndSleeps ==
    (wt.script = "sensor" /\ Polled /\ wt.only_pending
        /\ DocState(wt.last.body) = "SUCCEEDED") =>
        /\ ~InTracker
        /\ wt.result = "returned"
        /\ wt.value = wt.last.body
        /\ wt.sleeps = wt.polls - 1

C3_Witness ==
    /\ wt.script = "sensor"
    /\ wt.result = "returned"
    /\ wt.only_pending
    /\ wt.polls = 3
    /\ wt.sleeps = 2
    /\ DocState(wt.value) = "SUCCEEDED"

\* C4: in the sensor script, a poll in state FAILED makes wait_for_task raise
\* at once (no further poll, no sleep) an error that carries
\* status.error_detail when the document has one and the placeholder
\* 'No error details available' when it has none.
C4_SensorFailedRaises ==
    (wt.script = "sensor" /\ Polled /\ DocState(wt.last.body) = "FAILED") =>
        /\ ~InTracker
        /\ pc = "done"
        /\ outcome = "error"
        /\ wt.result = "task_failed"
        /\ wt.sleeps = wt.polls - 1
        /\ wt.value = IF DocHasDetail(wt.last.body)
                      THEN DocDetail(wt.last.body)
                      ELSE NoDetails

C4_Witness ==
    /\ wt.script = "sensor"
    /\ wt.result = "task_failed"
    /\ wt.value = Str("boom")
    /\ wt.polls = 2

\* C5: when every poll returns PENDING and polls take no time, wait_for_task
\* (timeout T, interval I) raises the timeout error at an elapsed time that
\* is greater than T and at most T + I, and issues no poll later than T + I.
C5_TimeoutWithinOneInterval ==
    (wt.script \in {"sensor", "network"} /\ AllPending /\ latency = 0) =>
        /\ wt.polled_at <= wt.timeout_secs + wt.interval_secs
        /\ pc = "wt_sleep" => wt.elapsed <= wt.timeout_secs
        /\ ~InTracker =>
              /\ wt.result = "timed_out"
              /\ wt.elapsed > wt.timeout_secs
              /\ wt.elapsed <= wt.timeout_secs + wt.interval_secs
              /\ wt.polls = (wt.timeout_secs \div wt.interval_secs) + 2

C5_Witness ==
    /\ AllPending
    /\ latency = 0
    /\ wt.script = "network"
    /\ wt.result = "timed_out"
    /\ wt.timeout_secs = 2
    /\ wt.elapsed = wt.timeout_secs + wt.interval_secs

(***************************************************************************)
(* Entities of the control plane.  An entity is a dict {metadata, spec};   *)
(* optional keys are left out of the DOMAIN.  Uuids are <<kind, number>>.  *)
(***************************************************************************)
Uuid(kind, i) == <<kind, i>>

ClusterRef(c) ==
    [kind |-> "cluster", name |-> c, uuid |-> Uuid("cluster", IF c = "A" THEN 1 ELSE 2)]

\* The reference main and update_network write into spec.resources.
ChainRef(chain_uuid) ==
    [kind |-> "network_function_chain", name |-> "vectra_tap", uuid |-> chain_uuid]

\* A chain as POST network_function_chains/list returns it.
Chain(i, name, cluster, has_uuid) ==
    [ metadata |-> IF has_uuid
                   THEN [kind |-> "network_function_chain", uuid |-> Uuid("chain", i)]
                   ELSE [kind |-> "network_function_chain"],
      spec     |-> IF cluster = "None"
                   THEN [name |-> name]
                   ELSE [name |-> name, cluster_reference |-> ClusterRef(cluster)] ]

ChainsAt(i) ==
    { Chain(i, "vectra_tap", "A", TRUE), Chain(i, "vectra_tap", "B", TRUE),
      Chain(i, "other", "A", TRUE), Chain(i, "vectra_tap", "A", FALSE),
      Chain(i, "vectra_tap", "None", TRUE) }

\* spec.resources of a subnet.
Resources(kind) ==
    CASE kind = "vlan55"    -> [vlan_id |-> 55, subnet_type |-> "VLAN"]
      [] kind = "vlan55ref" -> [vlan_id |-> 55, subnet_type |-> "VLAN",
                                network_function_chain_reference |->
                                    ChainRef(Uuid("chain", 0))]
      [] kind = "vlan7"     -> [vlan_id |-> 7, subnet_type |-> "VLAN"]

\* A subnet as POST subnets/list returns it.
Network(i, cluster, res, has_uuid) ==
    LET base == [name |-> <<"net", i>>]
        withc == IF cluster = "None" THEN base
                 ELSE SetKey(base, "cluster_reference", ClusterRef(cluster))
        spec == IF res = "none" THEN withc
                ELSE SetKey(withc, "resources", Resources(res))
    IN  [ metadata |-> IF has_uuid
                       THEN [kind |-> "subnet", uuid |-> Uuid("net", i)]
                       ELSE [kind |-> "subnet"],
          spec     |-> spec ]

NetworksAt(i) ==
    { Network(i, "A", "vlan55", TRUE), Network(i, "A", "vlan55ref", TRUE),
      Network(i, "B", "vlan55", TRUE), Network(i, "A", "vlan7", TRUE),
      Network(i, "A", "none", TRUE), Network(i, "A", "vlan55", FALSE),
      Network(i, "None", "vlan55", TRUE) }

\* Every listing of at most n entities, the i-th drawn from at[i].
Listings(at, n) ==
    UNION { { s \in [1..k -> UNION {at[i] : i \in 1..k}] :
                \A i \in 1..k : s[i] \in at[i] } : k \in 0..n }

HasPath2(d, a, b) == a \in DOMAIN d /\ b \in DOMAIN d[a]
HasPath3(d, a, b, c) == HasPath2(d, a, b) /\ c \in DOMAIN d[a][b]

UuidsOf(entities) ==
    { entities[i].metadata.uuid :
        i \in { j \in 1..Len(entities) : HasPath2(entities[j], "metadata", "uuid") } }

\* A request, as last_req remembers it: what was asked and the entities (or
\* the task) it fetched or wrote.
Req(op, uuids) == [op |-> op, uuids |-> uuids]

IsFetch(req) == req.op \in {"list", "get"}

\* The requests of this run, by what they ask.
Ops == [k \in 1..Len(reqs) |-> reqs[k].op]

\* make_request: the request goes out.
Sent(req, ok) ==
    /\ last_req' = req
    /\ reqs' = Append(reqs, [op |-> req.op, uuids |-> req.uuids, ok |-> ok])

(***************************************************************************)
(* The network script.                                                     *)
(***************************************************************************)

\* list_networks(offset, length): one page of the collection.
list_networks(offset, length) ==
    SubSeq(cp_networks, offset + 1, Min(Len(cp_networks), offset + length))

RECURSIVE GroupChainsKeepFirst(_, _, _)
GroupChainsKeepFirst(chains, i, acc) ==
    IF i > Len(chains) THEN acc
    ELSE LET chain == chains[i]
             keep == /\ HasPath2(chain, "spec", "name")
                     /\ chain.spec.name = "vectra_tap"
                     /\ HasPath3(chain, "spec", "cluster_reference", "name")
                     /\ HasPath2(chain, "metadata", "uuid")
                     /\ chain.spec.cluster_reference.name \notin DOMAIN acc
         IN  GroupChainsKeepFirst(chains, i + 1,
                IF keep
                THEN SetKey(acc, chain.spec.cluster_reference.name,
                            [ uuid    |-> chain.metadata.uuid,
                              created |-> Get(chain.metadata, "creation_time", "None") ])
                ELSE acc)

\* main, the loop over chains: cluster name -> {uuid, created}, a later
\* chain of the same cluster replacing an earlier one.
RECURSIVE GroupChains(_, _, _)
GroupChains(chains, i, acc) ==
    IF i > Len(chains) THEN acc
    ELSE LET chain == chains[i]
             keep == /\ HasPath2(chain, "spec", "name")
                     /\ chain.spec.name = "vectra_tap"
                     /\ HasPath3(chain, "spec", "cluster_reference", "name")
                     /\ HasPath2(chain, "metadata", "uuid")
         IN  GroupChains(chains, i + 1,
                IF keep
                THEN SetKey(acc, chain.spec.cluster_reference.name,
                            [ uuid    |-> chain.metadata.uuid,
                              created |-> Get(chain.metadata, "creation_time", "None") ])
                ELSE acc)

VlanMatchesOrNoVlan(network, vlan_id) ==
    \/ ~HasPath3(network, "spec", "resources", "vlan_id")
    \/ network.spec.resources.vlan_id = vlan_id

\* network.get('spec', {}).get('resources', {}).get('vlan_id') == vlan_id
VlanMatches(network, vlan_id) ==
    /\ HasPath3(network, "spec", "resources", "vlan_id")
    /\ network.spec.resources.vlan_id = vlan_id

\* network.get('spec', {}).get('cluster_reference', {}).get('name')
ClusterNameOf(network) ==
    IF HasPath3(network, "spec", "cluster_reference", "name")
    THEN network.spec.cluster_reference.name
    ELSE "None"

MatchNetworksOfAnyCluster(networks, vlan_id, chains) ==
    LET Matches(network) == VlanMatches(network, vlan_id)
        kept == SelectSeq(networks, Matches)
    IN  [ m \in 1..Len(kept) |->
            [ network      |-> kept[m],
              cluster_name |-> ClusterNameOf(kept[m]),
              chain_uuid   |-> IF ClusterNameOf(kept[m]) \in DOMAIN chains
                               THEN chains[ClusterNameOf(kept[m])].uuid
                               ELSE Uuid("chain", 0) ] ]

\* main, the loop over networks: the matches, in listing order.
MatchNetworks(networks, vlan_id, chains) ==
    LET Matches(network) ==
            /\ VlanMatches(network, vlan_id)
            /\ ClusterNameOf(network) \in DOMAIN chains
        kept == SelectSeq(networks, Matches)
    IN  [ m \in 1..Len(kept) |->
            [ network      |-> kept[m],
              cluster_name |-> ClusterNameOf(kept[m]),
              chain_uuid   |-> chains[ClusterNameOf(kept[m])].uuid ] ]

\* main, the loop over networks: the warnings it prints.
Warnings(networks, vlan_id, chains) ==
    { Msg("WARNING", What(ClusterNameOf(networks[i]))) :
        i \in { j \in 1..Len(networks) :
                  /\ VlanMatches(networks[j], vlan_id)
                  /\ ClusterNameOf(networks[j]) \notin DOMAIN chains } }

AlwaysUpdate(update_spec) == TRUE

\* 'network_function_chain_reference' not in update_spec['spec'].get('resources', {})
NeedsChainReference(update_spec) ==
    "network_function_chain_reference"
        \notin DOMAIN Get(update_spec.spec, "resources", EmptyDict)

\* update_network: update_spec['spec']['resources'] = {'network_function_chain_reference': {...}}
WithOnlyChainReference(update_spec, chain_uuid) ==
    [update_spec EXCEPT !.spec.resources =
        [network_function_chain_reference |-> ChainRef(chain_uuid)]]

WithUnnamedChainReference(update_spec, chain_uuid) ==
    [update_spec EXCEPT !.spec.resources =
        SetKey(@, "network_function_chain_reference",
               [kind |-> "network_function_chain", uuid |-> chain_uuid])]

\* main: update_spec['spec']['resources']['network_function_chain_reference'] = {...}
WithChainReference(update_spec, chain_uuid) ==
    [update_spec EXCEPT !.spec.resources =
        SetKey(@, "network_function_chain_reference", ChainRef(chain_uuid))]

\* What the control plane may answer to an update PUT.
PutResponses(task_uuid) ==
    { Failure,
      Ok([status |-> [state |-> "PENDING",
                      execution_context |-> [task_uuid |-> task_uuid]]]),
      Ok([status |-> [state |-> "PENDING"]]),
      Ok([status |-> [state |-> "COMPLETE"]]),
      Ok(EmptyDict) }

IsAnyStateWrite(result) == HasPath2(result, "status", "state")

IsNeverPendingWrite(result) == FALSE

\* result.get('status', {}).get('state') == 'PENDING'
IsPendingWrite(result) ==
    HasPath2(result, "status", "state") /\ result.status.state = "PENDING"

RaiseAndRetry(kind, what) ==
    /\ pc' = pc
    /\ outcome' = outcome
    /\ printed' = printed \cup {Msg(kind, What(what))}

\* An exception reaches the try/except of the entry point: it prints and returns.
Raise(kind, what) ==
    /\ pc' = "done"
    /\ outcome' = kind
    /\ printed' = printed \cup {Msg(kind, What(what))}

\* main: list the chains and group them by cluster.
BatchListChains ==
    /\ flow = "network_main"
    /\ pc = "start"
    /\ \E r \in {Failure, Ok([entities |-> cp_chains])} :
        /\ Sent(Req("list_chains", IF r.ok THEN UuidsOf(r.body.entities) ELSE {}), r.ok)
        /\ IF ~r.ok
           THEN Raise("error", "api_error") /\ UNCHANGED cluster_chains
           ELSE LET grouped == GroupChains(r.body.entities, 1, EmptyDict)
                IN  /\ cluster_chains' = grouped
                    /\ IF grouped = EmptyDict
                       THEN Raise("error", "no_chains")
                       ELSE /\ pc' = "list_networks"
                            /\ UNCHANGED <<outcome, printed>>
    /\ UNCHANGED <<flow, latency, wt, cpVars, args, matching_networks, idx,
                   fetched, found, clusters, puts, posts, run>>

\* main: list the networks (one page) and cross-reference them by cluster.
BatchListNetworks ==
    /\ flow = "network_main"
    /\ pc = "list_networks"
    /\ \E r \in {Failure, Ok([entities |-> list_networks(0, DefaultLength)])} :
        /\ Sent(Req("list", IF r.ok THEN UuidsOf(r.body.entities) ELSE {}), r.ok)
        /\ IF ~r.ok
           THEN Raise("error", "api_error") /\ UNCHANGED <<matching_networks, idx>>
           ELSE LET networks == r.body.entities
                    matches == MatchNetworks(networks, args.vlan_id, cluster_chains)
                    warned == Warnings(networks, args.vlan_id, cluster_chains)
                IN  /\ matching_networks' = matches
                    /\ IF matches = <<>>
                       THEN /\ pc' = "done"
                            /\ outcome' = "error"
                            /\ printed' = printed \cup warned
                                            \cup {Msg("error", What("no_networks"))}
                            /\ UNCHANGED idx
                       ELSE /\ pc' = "process"
                            /\ idx' = 1
                            /\ printed' = printed \cup warned
                            /\ UNCHANGED outcome
    /\ UNCHANGED <<flow, latency, wt, cpVars, args, cluster_chains, fetched,
                   found, clusters, puts, posts, run>>

\* main: one iteration of the loop over the matches, up to the answer to its
\* PUT.  A raised error leaves the loop: the try/except is around all of main.
BatchProcess ==
    /\ flow = "network_main"
    /\ pc = "process"
    /\ idx <= Len(matching_networks)
    /\ LET match == matching_networks[idx]
           network == match.network
           name == Get(Get(network, "spec", EmptyDict), "name", What("None"))
           update_spec == [ metadata |-> Get(network, "metadata", EmptyDict),
                            spec     |-> Get(network, "spec", EmptyDict) ]
           Continue(m) ==
               /\ printed' = printed \cup {Msg(m, name)}
               /\ idx' = idx + 1
               /\ UNCHANGED <<pc, outcome, wt>>
       IN  IF ~HasPath2(network, "metadata", "uuid")
           THEN Continue("skip_no_uuid") /\ UNCHANGED <<puts, last_req, reqs>>
           ELSE IF ~NeedsChainReference(update_spec)
           THEN Continue("skip_already") /\ UNCHANGED <<puts, last_req, reqs>>
           ELSE IF "resources" \notin DOMAIN update_spec.spec
           THEN Raise("unexpected", "KeyError")
                    /\ UNCHANGED <<puts, last_req, reqs, idx, wt>>
           ELSE LET uuid == network.metadata.uuid
                    payload == WithChainReference(update_spec, match.chain_uuid)
                IN  \E r \in PutResponses(Uuid("task", idx)) :
                      /\ puts' = Append(puts, [ uuid    |-> uuid,
                                                payload |-> payload,
                                                prev    |-> last_req,
                                                from    |-> update_spec,
                                                resp    |-> r ])
                      /\ Sent(Req("put", {uuid}), r.ok)
                      /\ IF ~r.ok
                         THEN Raise("error", "api_error") /\ UNCHANGED <<idx, wt>>
                         ELSE IF ~IsPendingWrite(r.body)
                         THEN Continue("updated")
                         ELSE IF ~HasPath3(r.body, "status", "execution_context",
                                           "task_uuid")
                         THEN Raise("unexpected", "KeyError") /\ UNCHANGED <<idx, wt>>
                         ELSE /\ wt' = NewFrame("network",
                                           r.body.status.execution_context.task_uuid,
                                           DefaultTimeoutSecs, DefaultIntervalSecs)
                              /\ pc' = LoopEntry
                              /\ UNCHANGED <<idx, outcome, printed>>
    /\ UNCHANGED <<flow, latency, cpVars, args, cluster_chains, matching_networks,
                   fetched, found, clusters, posts, run>>

\* main: wait_for_task returned; the iteration ends with its success message.
BatchTaskDone ==
    /\ flow = "network_main"
    /\ pc = "wt_returned"
    /\ printed' = printed \cup {Msg("updated", matching_networks[idx].network.spec.name)}
    /\ idx' = idx + 1
    /\ pc' = "process"
    /\ wt' = NoFrame
    /\ UNCHANGED <<flow, outcome, latency, cpVars, args, cluster_chains,
                   matching_networks, fetched, found, clusters, puts, posts,
                   last_req, reqs, run>>

\* main: the loop is over.
BatchFinish ==
    /\ flow = "network_main"
    /\ pc = "process"
    /\ idx > Len(matching_networks)
    /\ pc' = "done"
    /\ outcome' = "ok"
    /\ printed' = printed \cup {Msg("all_updated", What("all"))}
    /\ UNCHANGED <<flow, latency, wt, cpVars, args, mainVars, puts, posts,
                   last_req, reqs, run>>

InitBatch ==
    /\ InitCommon("network_main")
    /\ cp_chains \in Listings([i \in 1..MaxChains |-> ChainsAt(i)], MaxChains)
    /\ cp_networks \in Listings([i \in 1..MaxNetworks |-> NetworksAt(i)], MaxNetworks)
    /\ cp_vms = <<>>
    /\ cp_clusters = <<>>
    /\ cp_values = {}
    /\ args = [vlan_id |-> 55]

NextBatch ==
    \/ BatchListChains
    \/ BatchListNetworks
    \/ BatchProcess
    \/ BatchTaskDone
    \/ BatchFinish
    \/ WaitPoll
    \/ WaitSleep

SpecBatch == InitBatch /\ [][NextBatch]_vars

(***************************************************************************)
(* Claims about the batch flow (main of the network script), checked under *)
(* SpecBatch.                                                              *)
(***************************************************************************)
HasUuid(entity) == HasPath2(entity, "metadata", "uuid")

\* The listed network already carries a chain reference.
HasListedRef(network) ==
    HasPath3(network, "spec", "resources", "network_function_chain_reference")

PutIssuedFor(uuid) == \E k \in 1..Len(puts) : puts[k].uuid = uuid

\* C2: a failure while submitting or tracking one matched network's update
\* does not stop the batch: when main has ended, every matched network has
\* been planned, and every one without a chain reference has been submitted.
C2_BatchIsolatesFailures ==
    (flow = "network_main" /\ pc = "done" /\ matching_networks # <<>>) =>
        \A i \in 1..Len(matching_networks) :
            LET network == matching_networks[i].network
            IN  HasUuid(network) =>
                    IF HasListedRef(network)
                    THEN Msg("skip_already", network.spec.name) \in printed
                    ELSE PutIssuedFor(network.metadata.uuid)

\* C6: the request issued directly before the PUT for an entity is a fetch of
\* that same entity.
C6_PutFollowsFetch ==
    \A k \in 1..Len(puts) :
        IsFetch(puts[k].prev) /\ puts[k].uuid \in puts[k].prev.uuids

\* C9: in the batch flow no PUT is issued for a matched network whose listed
\* spec.resources already holds network_function_chain_reference; the
\* network is skipped with a message and the flow goes on to the next match.
C9_NoPutForSatisfied ==
    flow = "network_main" =>
        \A i \in 1..Len(matching_networks) :
            LET network == matching_networks[i].network
            IN  (HasUuid(network) /\ HasListedRef(network)) =>
                    /\ ~PutIssuedFor(network.metadata.uuid)
                    /\ i < idx => Msg("skip_already", network.spec.name) \in printed
                    /\ ~(pc = "done" /\ idx = i)

C9_Witness ==
    /\ flow = "network_main"
    /\ Len(matching_networks) = 2
    /\ HasListedRef(matching_networks[1].network)
    /\ Msg("skip_already", matching_networks[1].network.spec.name) \in printed
    /\ Len(puts) = 1
    /\ puts[1].uuid = matching_networks[2].network.metadata.uuid
    /\ pc = "done"
    /\ outcome = "ok"

(***************************************************************************)
(* The sensor script.  A VM name is a sequence of characters.              *)
(***************************************************************************)
NameVSensor01 == <<"v", "S", "e", "n", "s", "o", "r", "-", "0", "1">>
NameDataSensorX == <<"D", "a", "t", "a", "S", "e", "n", "s", "o", "r", "X">>
NameWeb == <<"w", "e", "b">>
NameSensor == <<"s", "e", "n", "s", "o", "r">>

\* re.IGNORECASE on the letters the names use.
Lower(c) ==
    CASE c = "S" -> "s"
      [] c = "D" -> "d"
      [] c = "X" -> "x"
      [] OTHER   -> c

\* re.compile(re.escape(vm_name), re.IGNORECASE).search(current_name)
PatternSearch(vm_name, current_name) ==
    \E off \in 0..(Len(current_name) - Len(vm_name)) :
        \A j \in 1..Len(vm_name) : Lower(current_name[off + j]) = Lower(vm_name[j])

\* metadata.categories of a VM.
Categories(kind) ==
    CASE kind = "other"      -> [environment |-> "prod"]
      [] kind = "configured" -> [environment |-> "prod",
                                 network_function_provider |-> "vectra_ai"]
      [] kind = "foreign"    -> [network_function_provider |-> "other_vendor"]

\* A VM as the control plane holds it.
Vm(i, name, cats, has_uuid) ==
    LET base == IF has_uuid THEN [kind |-> "vm", uuid |-> Uuid("vm", i)]
                ELSE [kind |-> "vm"]
    IN  [ metadata |-> IF cats = "none" THEN base
                       ELSE SetKey(base, "categories", Categories(cats)),
          spec     |-> [name |-> name, resources |-> [num_sockets |-> 2]],
          status   |-> [state |-> "COMPLETE"] ]

VmsAt(i) ==
    { Vm(i, n, c, TRUE) : n \in {NameVSensor01, NameDataSensorX, NameWeb},
                          c \in {"none", "other", "configured", "foreign"} }
        \cup { Vm(i, NameVSensor01, "none", FALSE) }

RECURSIVE FirstMatchOrFirstListed(_, _, _)
FirstMatchOrFirstListed(vms, vm_name, i) ==
    IF i > Len(vms) THEN Min(1, Len(vms))
    ELSE IF PatternSearch(vm_name, Get(Get(vms[i], "spec", EmptyDict), "name", <<>>))
         THEN i
         ELSE FirstMatchOrFirstListed(vms, vm_name, i + 1)

RECURSIVE LastMatch(_, _, _)
LastMatch(vms, vm_name, i) ==
    IF i > Len(vms) THEN 0
    ELSE LET later == LastMatch(vms, vm_name, i + 1)
         IN  IF later # 0 THEN later
             ELSE IF PatternSearch(vm_name,
                                   Get(Get(vms[i], "spec", EmptyDict), "name", <<>>))
                  THEN i
                  ELSE 0

\* find_vm_by_name, the loop: the index of the first VM whose name matches,
\* 0 when none does.
RECURSIVE FirstMatch(_, _, _)
FirstMatch(vms, vm_name, i) ==
    IF i > Len(vms) THEN 0
    ELSE IF PatternSearch(vm_name, Get(Get(vms[i], "spec", EmptyDict), "name", <<>>))
         THEN i
         ELSE FirstMatch(vms, vm_name, i + 1)

\* The entity with this uuid, as GET {kind}/{uuid} returns it.
EntityByUuid(entities, uuid) ==
    entities[CHOOSE i \in 1..Len(entities) :
                HasPath2(entities[i], "metadata", "uuid")
                    /\ entities[i].metadata.uuid = uuid]

\* update_vsensor: the document it submits.
WithProviderCategory(vm_details) ==
    [vm_details EXCEPT !.metadata =
        SetKey(@, "categories",
               SetKey(Get(@, "categories", EmptyDict),
                      "network_function_provider", "vectra_ai"))]

\* main: find_vm_by_name, and the check of what it found.
SensorFind ==
    /\ flow = "sensor_main"
    /\ pc = "start"
    /\ \E r \in {Failure, Ok([entities |-> cp_vms])} :
        /\ Sent(Req("list", IF r.ok THEN UuidsOf(r.body.entities) ELSE {}), r.ok)
        /\ IF ~r.ok
           THEN Raise("error", "api_error") /\ UNCHANGED found
           ELSE LET vms == r.body.entities
                    i == FirstMatch(vms, args.vm_name, 1)
                IN  IF i = 0 \/ ~HasPath2(vms[i], "metadata", "uuid")
                    THEN Raise("error", "not_found") /\ UNCHANGED found
                    ELSE /\ found' = [uuid |-> vms[i].metadata.uuid,
                                      name |-> vms[i].spec.name]
                         /\ pc' = "get_vm"
                         /\ printed' = printed \cup {Msg("found", vms[i].metadata.uuid)}
                         /\ UNCHANGED outcome
    /\ UNCHANGED <<flow, latency, wt, cpVars, args, cluster_chains,
                   matching_networks, idx, fetched, clusters, puts, posts, run>>

\* update_vsensor: get_vm_details.
SensorGet ==
    /\ flow = "sensor_main"
    /\ pc = "get_vm"
    /\ \E r \in {Failure, Ok(EntityByUuid(cp_vms, found.uuid))} :
        /\ Sent(Req("get", {found.uuid}), r.ok)
        /\ IF ~r.ok
           THEN Raise("error", "api_error") /\ UNCHANGED fetched
           ELSE /\ fetched' = r.body
                /\ pc' = "put_vm"
                /\ UNCHANGED <<outcome, printed>>
    /\ UNCHANGED <<flow, latency, wt, cpVars, args, cluster_chains,
                   matching_networks, idx, found, clusters, puts, posts, run>>

\* update_vsensor: set the category and submit the document.
SensorPut ==
    /\ flow = "sensor_main"
    /\ pc = "put_vm"
    /\ \E r \in PutResponses(Uuid("task", 1)) :
        /\ puts' = Append(puts, [ uuid    |-> found.uuid,
                                  payload |-> WithProviderCategory(fetched),
                                  prev    |-> last_req,
                                  from    |-> fetched,
                                  resp    |-> r ])
        /\ Sent(Req("put", {found.uuid}), r.ok)
        /\ IF ~r.ok
           THEN Raise("error", "api_error") /\ UNCHANGED wt
           ELSE IF ~IsPendingWrite(r.body)
           THEN /\ pc' = "done"
                /\ outcome' = "ok"
                /\ printed' = printed \cup {Msg("completed", found.uuid)}
                /\ UNCHANGED wt
           ELSE IF ~HasPath3(r.body, "status", "execution_context", "task_uuid")
           THEN Raise("unexpected", "KeyError") /\ UNCHANGED wt
           ELSE /\ wt' = NewFrame("sensor", r.body.status.execution_context.task_uuid,
                                  DefaultTimeoutSecs, DefaultIntervalSecs)
                /\ pc' = LoopEntry
                /\ UNCHANGED <<outcome, printed>>
    /\ UNCHANGED <<flow, latency, cpVars, args, mainVars, posts, run>>

\* main: update_vsensor returned from wait_for_task.
SensorTaskDone ==
    /\ flow = "sensor_main"
    /\ pc = "wt_returned"
    /\ pc' = "done"
    /\ outcome' = "ok"
    /\ printed' = printed \cup {Msg("completed", found.uuid)}
    /\ wt' = NoFrame
    /\ UNCHANGED <<flow, latency, cpVars, args, mainVars, puts, posts, last_req,
                   reqs, run>>

InitSensor ==
    /\ InitCommon("sensor_main")
    /\ cp_chains = <<>>
    /\ cp_networks = <<>>
    /\ cp_vms \in Listings([i \in 1..MaxVms |-> VmsAt(i)], MaxVms)
    /\ cp_clusters = <<>>
    /\ cp_values = {}
    /\ args = [vm_name |-> NameSensor]

NextSensor ==
    \/ SensorFind
    \/ SensorGet
    \/ SensorPut
    \/ SensorTaskDone
    \/ WaitPoll
    \/ WaitSleep

SpecSensor == InitSensor /\ [][NextSensor]_vars

\* C7: re-running the sensor flow against a configured VM is a no-op: when
\* the fetched VM's metadata.categories already holds
\* network_function_provider, update_vsensor submits no PUT for it.
C7_NoPutWhenConfigured ==
    flow = "sensor_main" =>
        \A k \in 1..Len(puts) :
            "network_function_provider"
                \notin DOMAIN Get(puts[k].from.metadata, "categories", EmptyDict)

\* The positions of the listing whose VM name contains the search string,
\* letter case aside.
Candidates == { j \in 1..Len(cp_vms) : PatternSearch(args.vm_name, cp_vms[j].spec.name) }

\* C19: find_vm_by_name picks the first VM in listing order whose name
\* contains the search string case-insensitively and reports that VM's exact
\* name; the sensor flow then fetches and updates that VM's uuid and no
\* other VM.
C19_FirstMatchInListingOrder ==
    flow = "sensor_main" =>
        /\ found # EmptyDict =>
              /\ Candidates # {}
              /\ \A j \in Candidates :
                    (\A h \in Candidates : j <= h) =>
                        /\ HasUuid(cp_vms[j])
                        /\ found.uuid = cp_vms[j].metadata.uuid
                        /\ found.name = cp_vms[j].spec.name
        /\ \A k \in 1..Len(reqs) :
              reqs[k].op \in {"get", "put"} =>
                  (found # EmptyDict /\ reqs[k].uuids = {found.uuid})
        /\ \A k \in 1..Len(puts) :
              /\ puts[k].uuid = found.uuid
              /\ puts[k].payload.metadata.uuid = found.uuid
              /\ puts[k].payload.spec.name = found.name

C19_Witness ==
    /\ flow = "sensor_main"
    /\ args.vm_name = NameSensor
    /\ Len(cp_vms) = 2
    /\ cp_vms[1].spec.name = NameVSensor01
    /\ cp_vms[2].spec.name = NameDataSensorX
    /\ HasUuid(cp_vms[2])
    /\ found = [uuid |-> Uuid("vm", 1), name |-> NameVSensor01]
    /\ Ops = <<"list", "get", "put">>
    /\ pc = "done"
    /\ outcome = "ok"

(***************************************************************************)
(* update_network of the network script: the single-target flow by VLAN.   *)
(***************************************************************************)

\* find_network_by_vlan, the loop: the index of the first network of the page
\* with this VLAN, 0 when none has it.
RECURSIVE FirstWithVlan(_, _, _)
FirstWithVlan(networks, vlan_id, i) ==
    IF i > Len(networks) THEN 0
    ELSE IF VlanMatches(networks[i], vlan_id) THEN i
         ELSE FirstWithVlan(networks, vlan_id, i + 1)

\* update_network, up to the request it is about to submit.
UpdateNetworkFind ==
    /\ flow = "update_network"
    /\ pc = "start"
    /\ \E r \in {Failure, Ok([entities |-> list_networks(0, DefaultLength)])} :
        /\ Sent(Req("list", IF r.ok THEN UuidsOf(r.body.entities) ELSE {}), r.ok)
        /\ IF ~r.ok
           THEN Raise("error", "api_error") /\ UNCHANGED <<found, fetched>>
           ELSE LET networks == r.body.entities
                    i == FirstWithVlan(networks, args.vlan_id, 1)
                    update_spec == [ metadata |-> Get(networks[i], "metadata", EmptyDict),
                                     spec     |-> Get(networks[i], "spec", EmptyDict) ]
                IN  IF i = 0
                    THEN Raise("error", "not_found") /\ UNCHANGED <<found, fetched>>
                    ELSE IF ~HasPath2(networks[i], "metadata", "uuid")
                    THEN Raise("error", "no_uuid") /\ UNCHANGED <<found, fetched>>
                    ELSE IF "network_function_chain_reference"
                                \in DOMAIN update_spec.spec.resources
                    THEN /\ pc' = "done"
                         /\ outcome' = "ok"
                         /\ printed' = printed \cup {Msg("skip_already", What("vlan"))}
                         /\ found' = [uuid |-> networks[i].metadata.uuid]
                         /\ fetched' = update_spec
                    ELSE IF "chain_uuid" \notin DOMAIN args
                    THEN Raise("error", "chain_uuid_required")
                            /\ UNCHANGED <<found, fetched>>
                    ELSE /\ found' = [uuid |-> networks[i].metadata.uuid]
                         /\ fetched' = update_spec
                         /\ pc' = "put_network"
                         /\ UNCHANGED <<outcome, printed>>
    /\ UNCHANGED <<flow, latency, wt, cpVars, args, cluster_chains,
                   matching_networks, idx, clusters, puts, posts, run>>

\* update_network: update_subnet and what follows its answer.
UpdateNetworkPut ==
    /\ flow = "update_network"
    /\ pc = "put_network"
    /\ \E r \in PutResponses(Uuid("task", 1)) :
        /\ puts' = Append(puts, [ uuid    |-> found.uuid,
                                  payload |-> WithOnlyChainReference(fetched,
                                                                     args.chain_uuid),
                                  prev    |-> last_req,
                                  from    |-> fetched,
                                  resp    |-> r ])
        /\ Sent(Req("put", {found.uuid}), r.ok)
        /\ IF ~r.ok
           THEN Raise("error", "api_error") /\ UNCHANGED wt
           ELSE IF ~IsPendingWrite(r.body)
           THEN /\ pc' = "done"
                /\ outcome' = "ok"
                /\ UNCHANGED <<wt, printed>>
           ELSE IF ~HasPath3(r.body, "status", "execution_context", "task_uuid")
           THEN Raise("unexpected", "KeyError") /\ UNCHANGED wt
           ELSE /\ wt' = NewFrame("network", r.body.status.execution_context.task_uuid,
                                  DefaultTimeoutSecs, DefaultIntervalSecs)
                /\ pc' = LoopEntry
                /\ UNCHANGED <<outcome, printed>>
    /\ UNCHANGED <<flow, latency, cpVars, args, mainVars, posts, run>>

\* update_network: return nutanix.wait_for_task(task_uuid)
UpdateNetworkTaskDone ==
    /\ flow = "update_network"
    /\ pc = "wt_returned"
    /\ pc' = "done"
    /\ outcome' = "ok"
    /\ wt' = NoFrame
    /\ UNCHANGED <<flow, latency, cpVars, args, mainVars, histVars, last_req,
                   reqs, run>>

InitUpdateNetwork ==
    /\ InitCommon("update_network")
    /\ cp_chains = <<>>
    /\ cp_networks \in Listings([i \in 1..MaxNetworks |-> NetworksAt(i)], MaxNetworks)
    /\ cp_vms = <<>>
    /\ cp_clusters = <<>>
    /\ cp_values = {}
    /\ args \in { [vlan_id |-> 55], [vlan_id |-> 55, chain_uuid |-> Uuid("chain", 1)] }

NextUpdateNetwork ==
    \/ UpdateNetworkFind
    \/ UpdateNetworkPut
    \/ UpdateNetworkTaskDone
    \/ WaitPoll
    \/ WaitSleep

SpecUpdateNetwork == InitUpdateNetwork /\ [][NextUpdateNetwork]_vars

\* C10: update_network, when the found network has no chain reference,
\* submits the network's full {metadata, spec} with
\* network_function_chain_reference added under spec.resources and every
\* other field of spec.resources (vlan_id, ...) unchanged.
C10_UpdateNetworkKeepsResources ==
    flow = "update_network" =>
        \A k \in 1..Len(puts) :
            LET before == puts[k].from
                after == puts[k].payload
            IN  /\ after.metadata = before.metadata
                /\ DOMAIN after.spec = DOMAIN before.spec
                /\ \A f \in DOMAIN before.spec \ {"resources"} :
                      after.spec[f] = before.spec[f]
                /\ "network_function_chain_reference" \in DOMAIN after.spec.resources
                /\ \A f \in DOMAIN before.spec.resources :
                      /\ f \in DOMAIN after.spec.resources
                      /\ after.spec.resources[f] = before.spec.resources[f]

(***************************************************************************)
(* find_network_by_vlan, called on its own with a page size.               *)
(***************************************************************************)

\* The function's "return None".
None == EmptyDict

\* find_network_by_vlan(vlan_id, offset, length): one call of list_networks,
\* then the first network of that page with the VLAN.
LocatorFind ==
    /\ flow = "find_network_by_vlan"
    /\ pc = "start"
    /\ \E r \in {Failure, Ok([entities |-> list_networks(args.offset, args.length)])} :
        /\ Sent(Req("list", IF r.ok THEN UuidsOf(r.body.entities) ELSE {}), r.ok)
        /\ IF ~r.ok
           THEN Raise("error", "api_error") /\ UNCHANGED found
           ELSE LET networks == r.body.entities
                    i == FirstWithVlan(networks, args.vlan_id, 1)
                IN  /\ found' = IF i = 0 THEN None ELSE networks[i]
                    /\ pc' = "done"
                    /\ outcome' = "ok"
                    /\ UNCHANGED printed
    /\ UNCHANGED <<flow, latency, wt, cpVars, args, cluster_chains,
                   matching_networks, idx, fetched, clusters, puts, posts, run>>

InitLocator ==
    /\ InitCommon("find_network_by_vlan")
    /\ cp_chains = <<>>
    /\ cp_networks \in Listings([i \in 1..MaxNetworks |-> NetworksAt(i)], MaxNetworks)
    /\ cp_vms = <<>>
    /\ cp_clusters = <<>>
    /\ cp_values = {}
    /\ \E p \in 1..(MaxNetworks + 1) : args = [vlan_id |-> 55, offset |-> 0, length |-> p]

NextLocator == LocatorFind

SpecLocator == InitLocator /\ [][NextLocator]_vars

\* The positions of the collection that hold a network with this VLAN.
WithVlan(vlan_id) ==
    { j \in 1..Len(cp_networks) : VlanMatches(cp_networks[j], vlan_id) }

\* C12: when exactly one network of the collection has vlan_id = V,
\* find_network_by_vlan(V, length = p) returns that network for every page
\* size p, wherever the network sits in listing order.
C12_LocatorFindsTheOne ==
    (flow = "find_network_by_vlan" /\ pc = "done" /\ outcome = "ok"
        /\ Cardinality(WithVlan(args.vlan_id)) = 1) =>
        \A j \in WithVlan(args.vlan_id) : found = cp_networks[j]

(***************************************************************************)
(* The batch flow against a collection larger than one page of              *)
(* list_networks: a full page followed by a page one short of full.  One    *)
(* network, at the start, at either side of the page boundary or at the     *)
(* end, has the requested VLAN; its cluster has a chain.                    *)
(***************************************************************************)
PagedCollection(pos) ==
    [ i \in 1..(2 * DefaultLength - 1) |->
        Network(i, "A", IF i = pos THEN "vlan55" ELSE "vlan7", TRUE) ]

InitPaging ==
    /\ InitCommon("network_main")
    /\ cp_chains = << Chain(1, "vectra_tap", "A", TRUE) >>
    /\ \E pos \in {1, DefaultLength, DefaultLength + 1, 2 * DefaultLength - 1} :
          cp_networks = PagedCollection(pos)
    /\ cp_vms = <<>>
    /\ cp_clusters = <<>>
    /\ cp_values = {}
    /\ args = [vlan_id |-> 55]

SpecPaging == InitPaging /\ [][NextBatch]_vars

\* main is past its listing of the networks, which succeeded.
ListingDone ==
    \/ pc \in {"process", "wt_poll", "wt_sleep", "wt_returned"}
    \/ pc = "done" /\ (idx >= 1 \/ Msg("error", What("no_networks")) \in printed)

PageFetches == { k \in 1..Len(reqs) : reqs[k].op = "list" }

\* C13: the batch flow reads the network collection to its end: a collection
\* of pageSize + (pageSize - 1) networks is read with exactly two page
\* fetches, and every network of it is examined for a VLAN match.
C13_ListingReadsEveryPage ==
    (flow = "network_main" /\ ListingDone
        /\ Len(cp_networks) = 2 * DefaultLength - 1) =>
        /\ Cardinality(PageFetches) = 2
        /\ \A j \in WithVlan(args.vlan_id) :
              ClusterNameOf(cp_networks[j]) \in DOMAIN cluster_chains =>
                  \E m \in 1..Len(matching_networks) :
                      matching_networks[m].network = cp_networks[j]

(***************************************************************************)
(* The three flows that write an entity, side by side: the batch flow, the *)
(* sensor flow and update_network.                                         *)
(***************************************************************************)
InitScripts == InitBatch \/ InitSensor \/ InitUpdateNetwork

NextScripts == NextBatch \/ NextSensor \/ NextUpdateNetwork

SpecScripts == InitScripts /\ [][NextScripts]_vars

\* d2 is d1 with key k set to v and every other key as it was.
SameButKey(d1, d2, k, v) ==
    /\ DOMAIN d2 = DOMAIN d1 \cup {k}
    /\ d2[k] = v
    /\ \A f \in DOMAIN d1 \ {k} : d2[f] = d1[f]

\* The listed vectra_tap chains of a cluster.
ListedChainUuids(cluster_name) ==
    { cp_chains[i].metadata.uuid :
        i \in { j \in 1..Len(cp_chains) :
                  /\ HasUuid(cp_chains[j])
                  /\ cp_chains[j].spec.name = "vectra_tap"
                  /\ HasPath3(cp_chains[j], "spec", "cluster_reference", "name")
                  /\ cp_chains[j].spec.cluster_reference.name = cluster_name } }

\* C11: every PUT of the batch flow and of the sensor flow submits the
\* snapshot it was built from with exactly one key set:
\* spec.resources.network_function_chain_reference = {kind, name vectra_tap,
\* uuid of a chain of the network's cluster} in the batch flow,
\* metadata.categories.network_function_provider = vectra_ai in the sensor
\* flow; every other field of the document is as the snapshot had it.
C11_PutSetsOneKey ==
    \A k \in 1..Len(puts) :
        LET before == puts[k].from
            after == puts[k].payload
        IN  /\ flow = "network_main" =>
                /\ \E j \in 1..Len(cp_networks) : cp_networks[j] = before
                /\ before.metadata.uuid = puts[k].uuid
                /\ DOMAIN after = DOMAIN before
                /\ after.metadata = before.metadata
                /\ DOMAIN after.spec = DOMAIN before.spec
                /\ \A f \in DOMAIN before.spec \ {"resources"} :
                      after.spec[f] = before.spec[f]
                /\ \E u \in ListedChainUuids(ClusterNameOf(before)) :
                      SameButKey(before.spec.resources, after.spec.resources,
                                 "network_function_chain_reference", ChainRef(u))
            /\ flow = "sensor_main" =>
                /\ \E j \in 1..Len(cp_vms) : cp_vms[j] = before
                /\ before.metadata.uuid = puts[k].uuid
                /\ DOMAIN after = DOMAIN before
                /\ \A f \in DOMAIN before \ {"metadata"} : after[f] = before[f]
                /\ DOMAIN after.metadata = DOMAIN before.metadata \cup {"categories"}
                /\ \A f \in DOMAIN before.metadata \ {"categories"} :
                      after.metadata[f] = before.metadata[f]
                /\ SameButKey(Get(before.metadata, "categories", EmptyDict),
                              after.metadata.categories,
                              "network_function_provider", "vectra_ai")

C11_Witness ==
    /\ flow = "network_main"
    /\ pc = "done"
    /\ outcome = "ok"
    /\ Len(puts) = 2
    /\ puts[1].from.spec.resources = [vlan_id |-> 55, subnet_type |-> "VLAN"]
    /\ DOMAIN puts[2].payload.spec.resources =
          {"vlan_id", "subnet_type", "network_function_chain_reference"}

\* The answer to a write is in state PENDING and carries a task handle.
IsTrackedWrite(r) ==
    /\ r.ok
    /\ HasPath2(r.body, "status", "state")
    /\ r.body.status.state = "PENDING"
    /\ HasPath3(r.body, "status", "execution_context", "task_uuid")

\* The answer to a write is in another state, or in none.
IsFinalWrite(r) ==
    /\ r.ok
    /\ ~(HasPath2(r.body, "status", "state") /\ r.body.status.state = "PENDING")

\* The request that followed the k-th PUT: what the next PUT saw as the last
\* request, or the last request of the run.
RequestAfterPut(k) == IF k < Len(puts) THEN puts[k + 1].prev ELSE last_req

\* C16: a write answered in state PENDING is tracked with wait_for_task on
\* status.execution_context.task_uuid before the flow goes on: either the
\* tracker is about to poll that handle, or the last request before the flow
\* went on was a poll of that handle.  A write answered in any other state,
\* or in none, is final: no task is polled for it and the flow goes on.
C16_PendingWriteIsTracked ==
    flow \in {"network_main", "sensor_main", "update_network"} =>
        \A k \in 1..Len(puts) :
            LET r == puts[k].resp
                after == RequestAfterPut(k)
                this == Req("put", {puts[k].uuid})
            IN  /\ IsTrackedWrite(r) =>
                    LET handle == r.body.status.execution_context.task_uuid
                    IN  \/ /\ k = Len(puts)
                           /\ after = this
                           /\ pc = "wt_poll"
                           /\ wt.polls = 0
                           /\ wt.task_uuid = handle
                        \/ after = Req("poll", {handle})
                /\ IsFinalWrite(r) =>
                    /\ after = this
                    /\ k = Len(puts) =>
                          /\ pc \in {"process", "done"}
                          /\ outcome \in {"running", "ok"}
                          /\ wt.polls = 0

C16_Witness ==
    /\ flow = "network_main"
    /\ pc = "done"
    /\ outcome = "ok"
    /\ Len(puts) = 2
    /\ IsTrackedWrite(puts[1].resp)
    /\ puts[2].prev.op = "poll"
    /\ IsFinalWrite(puts[2].resp)
    /\ last_req.op = "put"

\* The two single-target flows side by side: sensor main and update_network.
InitSingleTarget == InitSensor \/ InitUpdateNetwork

NextSingleTarget == NextSensor \/ NextUpdateNetwork

SpecSingleTarget == InitSingleTarget /\ [][NextSingleTarget]_vars

\* The single-target flow has no target: no VM name contains the search
\* string, respectively no network has the VLAN.
NoTarget ==
    \/ flow = "sensor_main" /\ Candidates = {}
    \/ flow = "update_network" /\ WithVlan(args.vlan_id) = {}

\* C20: in the single-target flows (sensor main, update_network) a target
\* that is not found fails the run before any fetch or write: the one
\* request of the run is the listing, the run ends with the not-found error
\* (or with the listing's own failure), and no GET, no PUT and no task poll
\* is issued.
C20_NotFoundBeforeAnyWrite ==
    (NoTarget /\ pc # "start") =>
        /\ pc = "done"
        /\ outcome = "error"
        /\ Ops = <<"list">>
        /\ puts = <<>>
        /\ wt = NoFrame
        /\ found = EmptyDict
        /\ \/ printed = {Msg("error", What("not_found"))}
           \/ printed = {Msg("error", What("api_error"))}

C20_Witness ==
    /\ flow = "update_network"
    /\ Len(cp_networks) = 2
    /\ WithVlan(args.vlan_id) = {}
    /\ "chain_uuid" \in DOMAIN args
    /\ pc = "done"
    /\ printed = {Msg("error", What("not_found"))}
    /\ last_req = Req("list", UuidsOf(cp_networks))

(***************************************************************************)
(* The batch flow, also against the three-network environment: two         *)
(* networks on VLAN 55, one in cluster A and one in cluster B, a third     *)
(* network on another VLAN, and a vectra_tap chain for cluster A only.     *)
(***************************************************************************)
ThreeNetworks ==
    { << Network(1, a, va, TRUE), Network(2, b, vb, TRUE), Network(3, c, vc, TRUE) >> :
        <<a, va, b, vb, c, vc>> \in
            { <<"A", "vlan55", "B", "vlan55", "A", "vlan7">>,
              <<"B", "vlan55", "A", "vlan55", "B", "vlan7">>,
              <<"A", "vlan7", "A", "vlan55", "B", "vlan55">>,
              <<"B", "vlan55", "B", "vlan7", "A", "vlan55">> } }

InitEndToEnd ==
    /\ InitCommon("network_main")
    /\ cp_chains = << Chain(1, "vectra_tap", "A", TRUE) >>
    /\ cp_networks \in ThreeNetworks
    /\ cp_vms = <<>>
    /\ cp_clusters = <<>>
    /\ cp_values = {}
    /\ args = [vlan_id |-> 55]

SpecBatchEndToEnd == (InitBatch \/ InitEndToEnd) /\ [][NextBatch]_vars

\* The cluster has a vectra_tap chain that the chain listing identifies.
ClusterHasChain(cluster_name) == ListedChainUuids(cluster_name) # {}

\* C14: in the batch flow a PUT is issued only for networks on the requested
\* VLAN whose cluster has a vectra_tap chain; once the networks are listed,
\* every network on the VLAN whose cluster has no chain has a warning and
\* never a PUT, and every network on the VLAN whose cluster has a chain is
\* among the networks to process; in a run that ends without error each of
\* those that lacked the reference has its PUT.
C14_OnlyClustersWithChain ==
    flow = "network_main" =>
        /\ \A k \in 1..Len(puts) :
              /\ VlanMatches(puts[k].from, args.vlan_id)
              /\ ClusterHasChain(ClusterNameOf(puts[k].from))
        /\ ListingDone =>
              \A j \in WithVlan(args.vlan_id) :
                  LET network == cp_networks[j]
                      cluster_name == ClusterNameOf(network)
                  IN  IF ClusterHasChain(cluster_name)
                      THEN /\ \E m \in 1..Len(matching_networks) :
                                  matching_networks[m].network = network
                           /\ (pc = "done" /\ outcome = "ok" /\ HasUuid(network)
                                  /\ ~HasListedRef(network)) =>
                                  PutIssuedFor(network.metadata.uuid)
                      ELSE /\ Msg("WARNING", What(cluster_name)) \in printed
                           /\ HasUuid(network) => ~PutIssuedFor(network.metadata.uuid)

C14_Witness ==
    /\ flow = "network_main"
    /\ Len(cp_networks) = 3
    /\ pc = "done"
    /\ outcome = "ok"
    /\ Len(puts) = 1
    /\ ClusterNameOf(puts[1].from) = "A"
    /\ Msg("updated", puts[1].from.spec.name) \in printed
    /\ Msg("WARNING", What("B")) \in printed
    /\ Cardinality({ m \in printed : m.msg = "WARNING" }) = 1

\* C15: leaving out a network on the requested VLAN because its cluster has
\* no chain is not a fatal error: a run in which chains exist and both
\* listings succeed does not end with an error when the networks on the VLAN
\* were left out, all of them included.
C15_ExclusionIsNotFatal ==
    (flow = "network_main" /\ pc = "done" /\ ListingDone
        /\ WithVlan(args.vlan_id) # {}
        /\ \A j \in WithVlan(args.vlan_id) :
              ~ClusterHasChain(ClusterNameOf(cp_networks[j]))) =>
        outcome # "error"

(***************************************************************************)
(* The provisioning script.                                                *)
(***************************************************************************)
ClusterName(i) == IF i = 1 THEN "A" ELSE IF i = 2 THEN "B" ELSE "C"

\* A cluster as POST clusters/list returns it.
Cluster(i, has_uuid) ==
    [ metadata |-> IF has_uuid THEN [kind |-> "cluster", uuid |-> Uuid("cluster", i)]
                   ELSE [kind |-> "cluster"],
      spec     |-> [name |-> ClusterName(i)] ]

ClustersAt(i) == { Cluster(i, TRUE), Cluster(i, FALSE) }

chain_spec_without_uuid(chain_name, provider_value, cluster_name, cluster_uuid) ==
    [ spec |->
        [ name |-> chain_name,
          resources |->
            [ network_function_list |->
                << [ network_function_type |-> "TAP",
                     category_filter |->
                        [ type   |-> "CATEGORIES_MATCH_ANY",
                          params |-> [network_function_provider |->
                                        <<provider_value>>] ] ] >> ],
          cluster_reference |-> [kind |-> "cluster", name |-> cluster_name] ],
      api_version |-> "3.1.0",
      metadata |-> [kind |-> "network_function_chain"] ]

\* create_network_function_chain: the document it posts.
chain_spec(chain_name, provider_value, cluster_name, cluster_uuid) ==
    [ spec |->
        [ name |-> chain_name,
          resources |->
            [ network_function_list |->
                << [ network_function_type |-> "TAP",
                     category_filter |->
                        [ type   |-> "CATEGORIES_MATCH_ANY",
                          params |-> [network_function_provider |->
                                        <<provider_value>>] ] ] >> ],
          cluster_reference |->
            [kind |-> "cluster", name |-> cluster_name, uuid |-> cluster_uuid] ],
      api_version |-> "3.1.0",
      metadata |-> [kind |-> "network_function_chain"] ]

\* The chain the control plane creates from a posted document.
CreatedChain(posted, uuid) ==
    [ metadata |-> [kind |-> "network_function_chain", uuid |-> uuid],
      spec     |-> posted.spec ]

provider_assumed(categories, provider_value) == TRUE

\* main: any(entity.get('value') == provider_value for entity in categories);
\* the listing is modelled by the set of its entities' values.
provider_exists(categories, provider_value) == provider_value \in categories

\* main: create_network_function_provider
ProvCreateCategory ==
    /\ flow = "provision_main"
    /\ pc = "start"
    /\ \E r \in {Failure, Ok(EmptyDict)} :
        /\ Sent(Req("put_category", {}), r.ok)
        /\ IF ~r.ok
           THEN Raise("error", "api_error")
           ELSE /\ pc' = "assign_value"
                /\ printed' = printed \cup {Msg("created_category", What("provider"))}
                /\ UNCHANGED outcome
    /\ UNCHANGED <<flow, latency, wt, cpVars, args, mainVars, puts, posts, run>>

\* main: assign_provider_value; the control plane stores the value, or
\* answers success without storing it.
ProvAssignValue ==
    /\ flow = "provision_main"
    /\ pc = "assign_value"
    /\ \E r \in {Failure, Ok(EmptyDict)}, stored \in BOOLEAN :
        /\ Sent(Req("put_value", {}), r.ok)
        /\ IF ~r.ok
           THEN Raise("error", "api_error") /\ UNCHANGED cp_values
           ELSE /\ cp_values' = IF stored THEN cp_values \cup {"vectra_ai"}
                                ELSE cp_values
                /\ pc' = "verify_value"
                /\ printed' = printed \cup {Msg("assigned_value", What("vectra_ai"))}
                /\ UNCHANGED outcome
    /\ UNCHANGED <<flow, latency, wt, cp_chains, cp_networks, cp_vms, cp_clusters,
                   args, mainVars, puts, posts, run>>

\* main: verify_provider_categories and the check of the value.
ProvVerifyValue ==
    /\ flow = "provision_main"
    /\ pc = "verify_value"
    /\ \E r \in {Failure, Ok([entities |-> cp_values])} :
        /\ Sent(Req("list_values", {}), r.ok)
        /\ IF ~r.ok
           THEN Raise("error", "api_error")
           ELSE IF ~provider_exists(r.body.entities, "vectra_ai")
           THEN Raise("error", "value_not_found")
           ELSE /\ pc' = "get_clusters"
                /\ printed' = printed \cup {Msg("verified_value", What("vectra_ai"))}
                /\ UNCHANGED outcome
    /\ UNCHANGED <<flow, latency, wt, cpVars, args, mainVars, puts, posts, run>>

\* main: get_clusters
ProvGetClusters ==
    /\ flow = "provision_main"
    /\ pc = "get_clusters"
    /\ \E r \in {Failure, Ok([entities |-> cp_clusters])} :
        /\ Sent(Req("list_clusters", IF r.ok THEN UuidsOf(r.body.entities) ELSE {}), r.ok)
        /\ IF ~r.ok
           THEN Raise("error", "api_error") /\ UNCHANGED <<clusters, idx>>
           ELSE IF r.body.entities = <<>>
           THEN Raise("error", "no_clusters") /\ UNCHANGED <<clusters, idx>>
           ELSE /\ clusters' = r.body.entities
                /\ idx' = 1
                /\ pc' = "create_chain"
                /\ UNCHANGED <<outcome, printed>>
    /\ UNCHANGED <<flow, latency, wt, cpVars, args, cluster_chains,
                   matching_networks, fetched, found, puts, posts, run>>

\* main: one iteration of the loop over the clusters.
ProvCreateChain ==
    /\ flow = "provision_main"
    /\ pc = "create_chain"
    /\ idx <= Len(clusters)
    /\ LET cluster == clusters[idx]
       IN  IF ~HasPath2(cluster, "spec", "name") \/ ~HasPath2(cluster, "metadata", "uuid")
           THEN Raise("unexpected", "KeyError")
                    /\ UNCHANGED <<cp_chains, posts, idx, last_req, reqs>>
           ELSE LET posted == chain_spec("vectra_tap", "vectra_ai",
                                         cluster.spec.name, cluster.metadata.uuid)
                    uuid == Uuid("chain", Len(cp_chains) + 1)
                IN  \E r \in {Failure, Ok(CreatedChain(posted, uuid))} :
                      /\ posts' = Append(posts, posted)
                      /\ Sent(Req("post_chain", {}), r.ok)
                      /\ IF ~r.ok
                         THEN Raise("error", "api_error") /\ UNCHANGED <<cp_chains, idx>>
                         ELSE /\ cp_chains' = Append(cp_chains, r.body)
                              /\ printed' = printed
                                    \cup {Msg("created_chain", r.body.metadata.uuid)}
                              /\ idx' = idx + 1
                              /\ UNCHANGED <<pc, outcome>>
    /\ UNCHANGED <<flow, latency, wt, cp_networks, cp_vms, cp_clusters, cp_values,
                   args, cluster_chains, matching_networks, fetched, found,
                   clusters, puts, run>>

\* main: verify_network_function_chains, after the loop.
ProvVerifyChains ==
    /\ flow = "provision_main"
    /\ pc = "create_chain"
    /\ idx > Len(clusters)
    /\ \E r \in {Failure, Ok([entities |-> cp_chains])} :
        /\ Sent(Req("list_chains", IF r.ok THEN UuidsOf(r.body.entities) ELSE {}), r.ok)
        /\ IF ~r.ok
           THEN Raise("error", "api_error")
           ELSE /\ pc' = "done"
                /\ outcome' = "ok"
                /\ printed' = printed \cup {Msg("chains_listed", What("all"))}
    /\ UNCHANGED <<flow, latency, wt, cpVars, args, mainVars, puts, posts, run>>

\* The operator runs the script again after a run that ended without error;
\* the control plane keeps what the earlier run created.
ProvRunAgain ==
    /\ flow = "provision_main"
    /\ pc = "done"
    /\ outcome = "ok"
    /\ run < MaxRuns
    /\ run' = run + 1
    /\ pc' = "start"
    /\ outcome' = "running"
    /\ clusters' = <<>>
    /\ idx' = 0
    /\ printed' = {}
    /\ last_req' = NoReq
    /\ reqs' = <<>>
    /\ UNCHANGED <<flow, latency, wt, cpVars, args, cluster_chains,
                   matching_networks, fetched, found, puts, posts>>

InitProvision ==
    /\ InitCommon("provision_main")
    /\ cp_chains = <<>>
    /\ cp_networks = <<>>
    /\ cp_vms = <<>>
    /\ cp_clusters \in Listings([i \in 1..MaxClusters |-> ClustersAt(i)], MaxClusters)
    /\ cp_values \in {{}, {"other_vendor"}, {"vectra_ai"}}
    /\ args = EmptyDict

NextProvision ==
    \/ ProvCreateCategory
    \/ ProvAssignValue
    \/ ProvVerifyValue
    \/ ProvGetClusters
    \/ ProvCreateChain
    \/ ProvVerifyChains
    \/ ProvRunAgain

SpecProvision == InitProvision /\ [][NextProvision]_vars

\* C17: in the provisioning flow the clusters are listed and chains are
\* created only after the verification listing held the value vectra_ai;
\* when the value is absent after create and assign, the flow ends with an
\* error right after the verification listing and no chain is ever posted.
C17_NoChainWithoutVerifiedValue ==
    flow = "provision_main" =>
        /\ \A k \in 1..Len(reqs) :
              reqs[k].op \in {"list_clusters", "post_chain", "list_chains"} =>
                  /\ k > 3
                  /\ reqs[3].op = "list_values"
                  /\ "vectra_ai" \in cp_values
                  /\ Msg("verified_value", What("vectra_ai")) \in printed
        /\ "vectra_ai" \notin cp_values =>
              /\ posts = <<>>
              /\ Len(reqs) <= 3
              /\ Len(reqs) = 3 => (pc = "done" /\ outcome = "error")

C17_Witness ==
    /\ flow = "provision_main"
    /\ cp_clusters # <<>>
    /\ "vectra_ai" \notin cp_values
    /\ Ops = <<"put_category", "put_value", "list_values">>
    /\ Msg("error", What("value_not_found")) \in printed
    /\ pc = "done"
    /\ posts = <<>>

\* C18: a provisioning run in which no request fails issues exactly one
\* chain-creation POST per listed cluster, in listing order, each naming the
\* chain vectra_tap, filtering on the provider value vectra_ai and
\* referencing that cluster's own name and uuid, and lists the chains once,
\* after the last creation.
C18_OneChainPerCluster ==
    (flow = "provision_main" /\ pc = "done" /\ outcome = "ok") =>
        LET n == Len(cp_clusters)
            first == (run - 1) * n
        IN  /\ clusters = cp_clusters
            /\ Len(posts) = run * n
            /\ \A i \in 1..n :
                  LET posted == posts[first + i].spec
                  IN  /\ posted.name = "vectra_tap"
                      /\ posted.cluster_reference =
                            [ kind |-> "cluster",
                              name |-> cp_clusters[i].spec.name,
                              uuid |-> cp_clusters[i].metadata.uuid ]
                      /\ Len(posted.resources.network_function_list) = 1
                      /\ posted.resources.network_function_list[1].category_filter.params
                            = [network_function_provider |-> <<"vectra_ai">>]
            /\ Ops = <<"put_category", "put_value", "list_values", "list_clusters">>
                        \o [i \in 1..n |-> "post_chain"] \o <<"list_chains">>

C18_Witness ==
    /\ flow = "provision_main"
    /\ run = 1
    /\ pc = "done"
    /\ outcome = "ok"
    /\ Len(cp_clusters) = 2
    /\ Len(posts) = 2
    /\ posts[2].spec.cluster_reference.name = "B"

(***************************************************************************)
(* The command line of the scripts: --test runs test(), otherwise main().  *)
(* The network and the sensor script are run with --test, the provisioning *)
(* script with and without.                                                *)
(***************************************************************************)
entry_point_ignoring_test(script, test) ==
    CASE script = "network"   -> "network_main"
      [] script = "sensor"    -> "sensor_main"
      [] script = "provision" -> "provision_main"

\* if args.test: test(...) else: main(...)
entry_point(script, test) ==
    IF test
    THEN CASE script = "network"   -> "network_test"
           [] script = "sensor"    -> "sensor_test"
           [] script = "provision" -> "provision_test"
    ELSE CASE script = "network"   -> "network_main"
           [] script = "sensor"    -> "sensor_main"
           [] script = "provision" -> "provision_main"

\* test of the network script, the loop over networks: every network on the
\* VLAN, with the chain of its cluster when there is one.
TestMatchNetworks(networks, vlan_id, chains) ==
    LET Matches(network) == VlanMatches(network, vlan_id)
        kept == SelectSeq(networks, Matches)
    IN  [ m \in 1..Len(kept) |->
            [ network      |-> kept[m],
              cluster_name |-> ClusterNameOf(kept[m]),
              chain_uuid   |-> Get(Get(chains, ClusterNameOf(kept[m]), EmptyDict),
                                   "uuid", What("None")) ] ]

\* test of the network script: list the chains and group them by cluster.
NetworkTestListChains ==
    /\ flow = "network_test"
    /\ pc = "start"
    /\ \E r \in {Failure, Ok([entities |-> cp_chains])} :
        /\ Sent(Req("list_chains", IF r.ok THEN UuidsOf(r.body.entities) ELSE {}), r.ok)
        /\ IF ~r.ok
           THEN Raise("error", "api_error") /\ UNCHANGED cluster_chains
           ELSE LET grouped == GroupChains(r.body.entities, 1, EmptyDict)
                IN  /\ cluster_chains' = grouped
                    /\ printed' = printed \cup
                          {IF grouped = EmptyDict
                           THEN Msg("WARNING", What("no_chains"))
                           ELSE Msg("found_chains", What("clusters"))}
                    /\ pc' = "list_networks"
                    /\ UNCHANGED outcome
    /\ UNCHANGED <<flow, latency, wt, cpVars, args, matching_networks, idx,
                   fetched, found, clusters, puts, posts, run>>

\* test of the network script: list the networks and report those on the VLAN.
NetworkTestListNetworks ==
    /\ flow = "network_test"
    /\ pc = "list_networks"
    /\ \E r \in {Failure, Ok([entities |-> list_networks(0, DefaultLength)])} :
        /\ Sent(Req("list", IF r.ok THEN UuidsOf(r.body.entities) ELSE {}), r.ok)
        /\ IF ~r.ok
           THEN Raise("error", "api_error") /\ UNCHANGED matching_networks
           ELSE LET matches == TestMatchNetworks(r.body.entities, args.vlan_id,
                                                 cluster_chains)
                IN  /\ matching_networks' = matches
                    /\ printed' = printed \cup
                          IF matches = <<>>
                          THEN {Msg("no_networks_found", What("vlan"))}
                          ELSE { IF matches[m].chain_uuid = What("None")
                                 THEN Msg("WARNING", What(matches[m].cluster_name))
                                 ELSE Msg("matching_chain", matches[m].chain_uuid) :
                                    m \in 1..Len(matches) }
                    /\ pc' = "done"
                    /\ outcome' = "ok"
    /\ UNCHANGED <<flow, latency, wt, cpVars, args, cluster_chains, idx, fetched,
                   found, clusters, puts, posts, run>>

\* test of the sensor script: find_vm_by_name and the report of what it found.
SensorTest ==
    /\ flow = "sensor_test"
    /\ pc = "start"
    /\ \E r \in {Failure, Ok([entities |-> cp_vms])} :
        /\ Sent(Req("list", IF r.ok THEN UuidsOf(r.body.entities) ELSE {}), r.ok)
        /\ IF ~r.ok
           THEN Raise("error", "api_error") /\ UNCHANGED found
           ELSE LET vms == r.body.entities
                    i == FirstMatch(vms, args.vm_name, 1)
                IN  /\ pc' = "done"
                    /\ outcome' = "ok"
                    /\ IF i = 0 \/ ~HasPath2(vms[i], "metadata", "uuid")
                       THEN /\ printed' = printed \cup {Msg("no_vm_found", What("name"))}
                            /\ UNCHANGED found
                       ELSE /\ printed' = printed \cup {Msg("found", vms[i].metadata.uuid)}
                            /\ found' = [uuid |-> vms[i].metadata.uuid,
                                         name |-> vms[i].spec.name]
    /\ UNCHANGED <<flow, latency, wt, cpVars, args, cluster_chains,
                   matching_networks, idx, fetched, clusters, puts, posts, run>>

\* test of the provisioning script: get_clusters and the report of each
\* cluster; cluster['metadata']['uuid'] raises KeyError on a cluster that
\* has none, after the clusters before it were reported.
ProvisionTest ==
    /\ flow = "provision_test"
    /\ pc = "start"
    /\ \E r \in {Failure, Ok([entities |-> cp_clusters])} :
        /\ Sent(Req("list_clusters", IF r.ok THEN UuidsOf(r.body.entities) ELSE {}), r.ok)
        /\ IF ~r.ok
           THEN Raise("error", "api_error") /\ UNCHANGED clusters
           ELSE LET listed == r.body.entities
                    bad == { i \in 1..Len(listed) :
                               \/ ~HasPath2(listed[i], "spec", "name")
                               \/ ~HasPath2(listed[i], "metadata", "uuid") }
                    located == { Msg("located", listed[i].metadata.uuid) :
                                   i \in { j \in 1..Len(listed) :
                                             \A b \in bad : j < b } }
                IN  /\ clusters' = listed
                    /\ pc' = "done"
                    /\ outcome' = IF bad = {} THEN "ok" ELSE "unexpected"
                    /\ printed' = printed \cup located \cup
                          IF bad = {} THEN {}
                          ELSE {Msg("unexpected", What("KeyError"))}
    /\ UNCHANGED <<flow, latency, wt, cpVars, args, cluster_chains,
                   matching_networks, idx, fetched, found, puts, posts, run>>

InitCommandLine ==
    \/ /\ InitCommon(entry_point("network", TRUE))
       /\ cp_chains \in Listings([i \in 1..MaxChains |-> ChainsAt(i)], MaxChains)
       /\ cp_networks \in Listings([i \in 1..MaxNetworks |-> NetworksAt(i)], MaxNetworks)
       /\ cp_vms = <<>>
       /\ cp_clusters = <<>>
       /\ cp_values = {}
       /\ args = [test |-> TRUE, vlan_id |-> 55]
    \/ /\ InitCommon(entry_point("sensor", TRUE))
       /\ cp_chains = <<>>
       /\ cp_networks = <<>>
       /\ cp_vms \in Listings([i \in 1..MaxVms |-> VmsAt(i)], MaxVms)
       /\ cp_clusters = <<>>
       /\ cp_values = {}
       /\ args = [test |-> TRUE, vm_name |-> NameSensor]
    \/ \E test \in BOOLEAN :
       /\ InitCommon(entry_point("provision", test))
       /\ cp_chains = <<>>
       /\ cp_networks = <<>>
       /\ cp_vms = <<>>
       /\ cp_clusters \in Listings([i \in 1..MaxClusters |-> ClustersAt(i)], MaxClusters)
       /\ cp_values \in {{}, {"other_vendor"}, {"vectra_ai"}}
       /\ args = [test |-> test]

NextCommandLine ==
    \/ NetworkTestListChains
    \/ NetworkTestListNetworks
    \/ SensorTest
    \/ ProvisionTest
    \/ NextProvision

SpecCommandLine == InitCommandLine /\ [][NextCommandLine]_vars

\* A request that lists a collection (POST {kind}/list).
IsListPost(req) == req.op \in {"list", "list_chains", "list_clusters", "list_values"}

\* C21: run with --test, each of the three scripts performs discovery only:
\* every request it issues is a list POST; it issues no PUT, no POST that
\* creates a resource and no task poll.
C21_DryRunOnlyLists ==
    args.test =>
        /\ \A k \in 1..Len(reqs) : IsListPost(reqs[k])
        /\ last_req = NoReq \/ IsListPost(last_req)
        /\ puts = <<>>
        /\ posts = <<>>
        /\ wt = NoFrame
        /\ (pc = "done" /\ outcome = "ok") =>
              Ops = CASE flow = "network_test"   -> <<"list_chains", "list">>
                      [] flow = "sensor_test"    -> <<"list">>
                      [] flow = "provision_test" -> <<"list_clusters">>

C21_Witness ==
    /\ args.test
    /\ flow = "network_test"
    /\ pc = "done"
    /\ outcome = "ok"
    /\ Ops = <<"list_chains", "list">>
    /\ Len(matching_networks) = 2
    /\ matching_networks[1].chain_uuid = Uuid("chain", 1)
    /\ Msg("WARNING", What("B")) \in printed

\* The chains named vectra_tap the control plane holds for this cluster.
TapChainsOf(cluster_name) ==
    { i \in 1..Len(cp_chains) :
        /\ cp_chains[i].spec.name = "vectra_tap"
        /\ cp_chains[i].spec.cluster_reference.name = cluster_name }

\* C8: the provisioning flow is idempotent: after a second run that follows a
\* fully successful first run, the control plane holds exactly one
\* vectra_tap chain per cluster.
C8_SecondRunCreatesNoChain ==
    (flow = "provision_main" /\ run = 2 /\ pc = "done" /\ outcome = "ok") =>
        \A i \in 1..Len(cp_clusters) :
            Cardinality(TapChainsOf(cp_clusters[i].spec.name)) = 1

(***************************************************************************)
(* Every flow that changes the control plane, side by side: the batch      *)
(* flow, the sensor flow, update_network and the provisioning flow.        *)
(***************************************************************************)
InitAllFlows == InitScripts \/ InitProvision

NextAllFlows == NextScripts \/ NextProvision

SpecAllFlows == InitAllFlows /\ [][NextAllFlows]_vars

\* C22: no failed request is retried.  The first request that fails (list,
\* GET, PUT, POST or task poll) is the last request of the run: the flow
\* has ended with a printed error.  No entity receives two PUTs in a run,
\* and a failed task poll is never repeated.
C22_NoRetryAfterFailure ==
    /\ \A k \in 1..Len(reqs) :
          ~reqs[k].ok =>
              /\ k = Len(reqs)
              /\ last_req = Req(reqs[k].op, reqs[k].uuids)
              /\ pc = "done"
              /\ outcome = "error"
              /\ Msg("error", What("api_error")) \in printed
    /\ (wt.polls >= 1 /\ ~wt.last.ok) =>
          /\ last_req = Req("poll", {wt.task_uuid})
          /\ wt.result = "api_error"
          /\ pc = "done"
          /\ outcome = "error"
          /\ Msg("error", What("api_error")) \in printed
    /\ \A k \in 1..Len(puts) :
          /\ ~puts[k].resp.ok => (k = Len(puts) /\ ~reqs[Len(reqs)].ok)
          /\ \A h \in 1..Len(puts) : puts[h].uuid = puts[k].uuid => h = k

C22_Witness ==
    /\ flow = "network_main"
    /\ Len(puts) = 2
    /\ puts[1].resp.ok
    /\ ~puts[2].resp.ok
    /\ Ops = <<"list_chains", "list", "put", "put">>
    /\ pc = "done"
    /\ outcome = "error"
    /\ idx = 2

(***************************************************************************)
(* A direct call of wait_for_task that keeps running: the interpreter      *)
(* always takes the program's next step (a poll or a sleep that returns).  *)
(***************************************************************************)
SpecTrackerFair == InitTracker /\ [][NextTracker]_vars /\ WF_vars(NextTracker)

\* The state a script finds in a task document of the shape it reads:
\* status.state for the sensor script, status for the network script; ""
\* when there is none.
SeenState(script, doc) ==
    IF script = "sensor" THEN DocState(doc)
    ELSE IF "status" \in DOMAIN doc /\ IsStr(doc.status) THEN doc.status.str
    ELSE ""

\* The sensor script was handed a document whose status is not an object.
OutsideSensorShape ==
    /\ wt.script = "sensor"
    /\ wt.last.ok
    /\ "status" \in DOMAIN wt.last.body
    /\ ~IsObj(wt.last.body.status)

TrackerEnded == flow = "wait" /\ pc \in {"wt_returned", "done"}

\* How the call stands after each poll: a state other than SUCCEEDED and
\* FAILED, or none, within the timeout is a retry; otherwise the call has
\* ended in exactly one of its four ways.
TrackerEndsProperly ==
    (flow = "wait" /\ wt.polls >= 1 /\ ~OutsideSensorShape) =>
        LET seen == IF wt.last.ok THEN SeenState(wt.script, wt.last.body) ELSE ""
        IN  IF ~wt.last.ok
            THEN TrackerEnded /\ wt.result = "api_error"
            ELSE IF seen = "SUCCEEDED"
            THEN TrackerEnded /\ wt.result = "returned" /\ pc = "wt_returned"
            ELSE IF seen = "FAILED"
            THEN TrackerEnded /\ wt.result = "task_failed"
            ELSE IF InTracker
            THEN wt.result = "none" /\ wt.polled_at + latency <= wt.timeout_secs
            ELSE /\ wt.result = "timed_out"
                 /\ wt.elapsed > wt.timeout_secs

LastHandle == puts[Len(puts)].resp.body.status.execution_context.task_uuid

\* C24: the batch flow has at most one update in flight.  A PUT is submitted
\* only while no task is tracked, and after the previous PUT (networks that
\* were skipped in between send nothing) was answered in a state other than
\* PENDING or its task was polled; a tracked task is left only after a poll
\* that read SUCCEEDED; every poll is of the task of the latest PUT.
C24_OneUpdateInFlight ==
    [][ flow = "network_main" =>
          /\ Len(puts') > Len(puts) =>
                /\ wt = NoFrame
                /\ pc = "process"
                /\ puts # <<>> =>
                      LET p == puts[Len(puts)]
                      IN  \/ /\ IsFinalWrite(p.resp)
                             /\ last_req = Req("put", {p.uuid})
                          \/ /\ IsTrackedWrite(p.resp)
                             /\ last_req = Req("poll", {LastHandle})
          /\ (wt # NoFrame /\ wt' = NoFrame) =>
                /\ wt.result = "returned"
                /\ wt.last.ok
                /\ SeenState("network", wt.last.body) = "SUCCEEDED"
                /\ IsTrackedWrite(puts[Len(puts)].resp)
                /\ wt.task_uuid = LastHandle
                /\ puts' = puts
          /\ wt'.polls > wt.polls =>
                /\ puts' = puts
                /\ IsTrackedWrite(puts[Len(puts)].resp)
                /\ wt.task_uuid = LastHandle
                /\ last_req' = Req("poll", {LastHandle})
      ]_vars

C24_Witness ==
    /\ flow = "network_main"
    /\ Len(puts) = 2
    /\ puts[1].uuid # puts[2].uuid
    /\ IsTrackedWrite(puts[1].resp)
    /\ puts[2].prev = Req("poll", {Uuid("task", 1)})
    /\ IsTrackedWrite(puts[2].resp)
    /\ pc = "wt_returned"
    /\ wt.task_uuid = Uuid("task", 2)
    /\ wt.polls = 2


(***************************************************************************)
(* The success messages of the two update scripts, checked under           *)
(* SpecScripts.                                                            *)
(***************************************************************************)
\* The k-th PUT of the run was answered and, where the answer was PENDING,
\* the request after it was a poll of its task.
PutWentThrough(k) ==
    \/ IsFinalWrite(puts[k].resp)
    \/ /\ IsTrackedWrite(puts[k].resp)
       /\ RequestAfterPut(k) =
              Req("poll", {puts[k].resp.body.status.execution_context.task_uuid})

\* The step is the return of wait_for_task from a poll of the task of the
\* last PUT that read SUCCEEDED.
LeavesTrackerOnSucceeded ==
    /\ pc = "wt_returned"
    /\ puts' = puts
    /\ puts # <<>>
    /\ IsTrackedWrite(puts[Len(puts)].resp)
    /\ wt.task_uuid = LastHandle
    /\ last_req = Req("poll", {LastHandle})
    /\ wt.result = "returned"
    /\ wt.last.ok
    /\ SeenState(wt.script, wt.last.body) = "SUCCEEDED"

\* The step is a PUT answered in a state other than PENDING, or in none.
SubmitsFinalWrite ==
    /\ Len(puts') = Len(puts) + 1
    /\ IsFinalWrite(puts'[Len(puts')].resp)

\* C25: a success message is printed only for an update that completed.  The
\* step that prints 'Update completed successfully' (sensor flow) or
\* 'Successfully updated network <name>' (batch flow) is the PUT of that
\* entity answered in a state other than PENDING, or the return from a poll of
\* its task that read SUCCEEDED; 'All network updates completed successfully'
\* is printed only when no error was printed and every PUT of the run went
\* through.
C25_SuccessOnlyWhenComplete ==
    [][ /\ \A m \in printed' \ printed :
              /\ m.msg = "completed" =>
                    /\ flow = "sensor_main"
                    /\ LET p == puts'[Len(puts')]
                       IN  /\ p.uuid = m.about
                           /\ SubmitsFinalWrite \/ LeavesTrackerOnSucceeded
              /\ m.msg = "updated" =>
                    /\ flow = "network_main"
                    /\ LET p == puts'[Len(puts')]
                       IN  /\ p.from.spec.name = m.about
                           /\ p.uuid = matching_networks[idx].network.metadata.uuid
                           /\ SubmitsFinalWrite \/ LeavesTrackerOnSucceeded
              /\ m.msg = "all_updated" =>
                    /\ flow = "network_main"
                    /\ outcome = "running"
                    /\ outcome' = "ok"
                    /\ \A e \in printed : e.msg \notin {"error", "unexpected"}
                    /\ \A k \in 1..Len(reqs) : reqs[k].ok
                    /\ \A k \in 1..Len(puts) :
                          /\ PutWentThrough(k)
                          /\ Msg("updated", puts[k].from.spec.name) \in printed
      ]_vars

C25_Witness ==
    /\ flow = "network_main"
    /\ Msg("all_updated", What("all")) \in printed
    /\ Len(puts) = 2
    /\ IsTrackedWrite(puts[1].resp)
    /\ IsFinalWrite(puts[2].resp)
    /\ puts[2].prev.op = "poll"
    /\ Msg("updated", puts[1].from.spec.name) \in printed
    /\ Msg("updated", puts[2].from.spec.name) \in printed
    /\ puts[1].from.spec.name # puts[2].from.spec.name


(***************************************************************************)
(* The order of the checks in wait_for_task, checked under SpecTracker.    *)
(***************************************************************************)
\* C26: wait_for_task checks the polled state before the timeout.  A call
\* that has ended has polled at least once, whatever the timeout; in the
\* sensor script a poll in state SUCCEEDED returns even past the timeout; and
\* the timeout error is raised only right after a poll whose document was in
\* neither state SUCCEEDED nor state FAILED.
C26_StateBeforeTimeout ==
    flow = "wait" =>
        /\ (pc \in {"wt_returned", "done"} \/ wt.result # "none") =>
              (wt.polls >= 1 /\ last_req = Req("poll", {wt.task_uuid}))
        /\ (wt.script = "sensor" /\ Polled /\ DocState(wt.last.body) = "SUCCEEDED") =>
              (pc = "wt_returned" /\ wt.result = "returned")
        /\ wt.result = "timed_out" =>
              /\ Polled
              /\ wt.elapsed > wt.timeout_secs
              /\ DocState(wt.last.body) \notin {"SUCCEEDED", "FAILED"}


(***************************************************************************)
(* The networks that reach the update step of the batch flow, checked      *)
(* under SpecBatch.                                                        *)
(***************************************************************************)
\* C27: every network the batch flow matched has a spec.resources bag whose
\* vlan_id is the integer VLAN asked for, so writing
\* network_function_chain_reference into spec.resources never fails for lack
\* of the bag: every PUT starts from a spec with resources, and the only
\* KeyError of the loop is that of a PENDING answer without a task handle.
C27_MatchedNetworkHasResources ==
    flow = "network_main" =>
        /\ \A m \in 1..Len(matching_networks) :
              LET network == matching_networks[m].network
              IN  /\ HasPath2(network, "spec", "resources")
                  /\ "vlan_id" \in DOMAIN network.spec.resources
                  /\ network.spec.resources.vlan_id = args.vlan_id
                  /\ args.vlan_id \in Int
        /\ \A k \in 1..Len(puts) :
              /\ "resources" \in DOMAIN puts[k].from.spec
              /\ DOMAIN puts[k].payload.spec.resources =
                    DOMAIN puts[k].from.spec.resources
                        \cup {"network_function_chain_reference"}
        /\ Msg("unexpected", What("KeyError")) \in printed =>
              /\ puts # <<>>
              /\ puts[Len(puts)].resp.ok
              /\ IsPendingWrite(puts[Len(puts)].resp.body)
              /\ ~HasPath3(puts[Len(puts)].resp.body, "status",
                           "execution_context", "task_uuid")

C27_Witness ==
    /\ flow = "network_main"
    /\ Len(cp_networks) = 2
    /\ "resources" \notin DOMAIN cp_networks[1].spec
    /\ Len(matching_networks) = 1
    /\ matching_networks[1].network = cp_networks[2]
    /\ Len(puts) = 1
    /\ puts[1].uuid = Uuid("net", 2)
    /\ "network_function_chain_reference" \in DOMAIN puts[1].payload.spec.resources
    /\ pc = "done"
    /\ outcome = "ok"


(***************************************************************************)
(* Several chains of one cluster in the batch flow, checked under          *)
(* SpecBatch.                                                              *)
(***************************************************************************)
\* The places in the chain listing of the chains named vectra_tap that
\* reference the cluster and have a uuid.
TapChainPlaces(cluster_name) ==
    { i \in 1..Len(cp_chains) :
        /\ cp_chains[i].spec.name = "vectra_tap"
        /\ "cluster_reference" \in DOMAIN cp_chains[i].spec
        /\ cp_chains[i].spec.cluster_reference.name = cluster_name
        /\ "uuid" \in DOMAIN cp_chains[i].metadata }

LastTapChain(cluster_name) ==
    LET places == TapChainPlaces(cluster_name)
    IN  cp_chains[CHOOSE i \in places : \A j \in places : j <= i]

\* C28: of several chains named vectra_tap that reference one cluster, the
\* batch flow keeps the last one in listing order that has a uuid, and every
\* network of that cluster is updated with that chain's uuid.  The grouping is
\* complete once the chains are listed: the chain listing is the first
\* request, the network listing and every PUT come after it.
C28_LastChainOfClusterWins ==
    flow = "network_main" =>
        /\ (reqs # <<>> /\ reqs[1].ok) =>
              /\ DOMAIN cluster_chains =
                    {c \in {"A", "B"} : TapChainPlaces(c) # {}}
              /\ \A c \in DOMAIN cluster_chains :
                    cluster_chains[c].uuid = LastTapChain(c).metadata.uuid
        /\ \A k \in 1..Len(reqs) :
              /\ reqs[k].op = "list_chains" <=> k = 1
              /\ reqs[k].op = "list" <=> k = 2
              /\ k >= 2 => reqs[1].ok
        /\ \A k \in 1..Len(puts) :
              LET c == puts[k].from.spec.cluster_reference.name
              IN  /\ Len(reqs) >= 3
                  /\ TapChainPlaces(c) # {}
                  /\ puts[k].payload.spec.resources
                         .network_function_chain_reference.uuid
                       = LastTapChain(c).metadata.uuid

C28_Witness ==
    /\ flow = "network_main"
    /\ Len(cp_chains) = 2
    /\ TapChainPlaces("A") = {1, 2}
    /\ Len(puts) = 2
    /\ \A k \in 1..2 :
          /\ puts[k].from.spec.cluster_reference.name = "A"
          /\ puts[k].payload.spec.resources.network_function_chain_reference.uuid
                = Uuid("chain", 2)
    /\ pc = "done"
    /\ outcome = "ok"
====
